---- MODULE Spec2Model ----
(***************************************************************************)
(* StandardRelayerAPIOrderProvider                                         *)
(* (packages/asset-swapper/src/order_providers/                            *)
(*  standard_relayer_api_order_provider.ts)                                *)
(*                                                                         *)
(* One provider instance, one public call at a time.  A public call is two *)
(* steps: the synchronous part up to the await (validation, the outbound   *)
(* request), and the continuation after the remote client has resolved or  *)
(* rejected.  Strings that the code parses (metaData values) are sequences *)
(* of one-character strings; amounts are BigNumber records                 *)
(* [nan, n, s] standing for n / 10^s.                                      *)
(***************************************************************************)
EXTENDS Integers, Sequences, FiniteSets, TLC

VARIABLES ctorArgs, ctorError, provider, pc, call, sent, response, outcome

vars == <<ctorArgs, ctorError, provider, pc, call, sent, response, outcome>>

(***************************************************************************)
(* Bounds                                                                  *)
(***************************************************************************)
\* longest asks record list of an order-book response
MaxRecords == 2
\* longest record list of an asset-pairs response
MaxPairs == 2

(***************************************************************************)
(* Input domains                                                           *)
(***************************************************************************)
ApiUrls == {"https://sra.example/v2", "not a url"}

Num(v) == [type |-> "number", finite |-> TRUE, val |-> v]

UndefinedNumber == [type |-> "undefined", finite |-> FALSE, val |-> 0]

NetworkIds ==
    { Num(1), Num(42),
      [type |-> "number", finite |-> FALSE, val |-> 0],
      [type |-> "string", finite |-> FALSE, val |-> 1] }

UndefinedString == "<undefined>"

AssetDatas == {"0xA", "0xB", "0xC"}

\* what a caller may put in the fields of an OrderProviderRequest
RequestMakerAssetDatas == {"0xA", "0xB", ""}

RequestTakerAssetDatas == {"0xB", "zz"}

\* values of metaData.remainingTakerAssetAmount, when the key is there
MetaDataStrings ==
    { <<>>, <<"0">>, <<"5", "0">>, <<"1", "5", "0">>, <<"-", "1">>,
      <<"2", ".", "5">>, <<"x">> }

MetaDatas ==
    {[has |-> FALSE, remainingTakerAssetAmount |-> <<>>]} \cup
    {[has |-> TRUE, remainingTakerAssetAmount |-> s] : s \in MetaDataStrings}

\* order amounts are unsigned integers; takerAssetAmount is positive
Orders ==
    { [makerAssetAmount |-> 200, takerAssetAmount |-> 100],
      [makerAssetAmount |-> 50, takerAssetAmount |-> 7] }

APIOrders == [order : Orders, metaData : MetaDatas]

AssetPairsItems == [assetDataA : AssetDatas, assetDataB : AssetDatas]

SeqsUpTo(S, n) == UNION {[1..k -> S] : k \in 0..n}

TransportCauses == {"timeout", "status500", "malformedJSON"}

\* the bids side of the book: returned by the relayer, never read here
BidsLists ==
    { <<>>,
      <<[order |-> [makerAssetAmount |-> 200, takerAssetAmount |-> 100],
         metaData |-> [has |-> FALSE, remainingTakerAssetAmount |-> <<>>]]>> }

(***************************************************************************)
(* BigNumber                                                               *)
(***************************************************************************)
Digits == {"0", "1", "2", "3", "4", "5", "6", "7", "8", "9"}

DigitVal ==
    [c \in Digits |->
        CASE c = "0" -> 0 [] c = "1" -> 1 [] c = "2" -> 2 [] c = "3" -> 3
          [] c = "4" -> 4 [] c = "5" -> 5 [] c = "6" -> 6 [] c = "7" -> 7
          [] c = "8" -> 8 [] c = "9" -> 9]

RECURSIVE Pow10(_)
Pow10(k) == IF k = 0 THEN 1 ELSE 10 * Pow10(k - 1)

BigNumberNaN == [nan |-> TRUE, n |-> 0, s |-> 0]

BigNumberOfInt(i) == [nan |-> FALSE, n |-> i, s |-> 0]

RECURSIVE DigitsValue(_)
DigitsValue(ds) ==
    IF ds = <<>> THEN 0
    ELSE 10 * DigitsValue(SubSeq(ds, 1, Len(ds) - 1)) + DigitVal[ds[Len(ds)]]

\* new BigNumber(str) for plain decimal notation: -?(d+(.d*)?|.d+),
\* anything else is NaN
BigNumberOfString(str) ==
    LET neg == Len(str) > 0 /\ str[1] = "-"
        body == IF neg THEN Tail(str) ELSE str
        dots == {i \in 1..Len(body) : body[i] = "."}
        wellFormed ==
            /\ \A i \in 1..Len(body) : body[i] \in Digits \cup {"."}
            /\ Cardinality(dots) <= 1
            /\ \E i \in 1..Len(body) : body[i] \in Digits
    IN  IF ~wellFormed THEN BigNumberNaN
        ELSE LET dot == IF dots = {} THEN Len(body) + 1
                        ELSE CHOOSE i \in dots : TRUE
                 ds == SubSeq(body, 1, dot - 1) \o SubSeq(body, dot + 1, Len(body))
                 mag == DigitsValue(ds)
             IN  [nan |-> FALSE,
                  n |-> IF neg THEN 0 - mag ELSE mag,
                  s |-> IF dots = {} THEN 0 ELSE Len(body) - dot]

(***************************************************************************)
(* Collaborators                                                           *)
(***************************************************************************)
isWebUri(apiUrl) == apiUrl \in {"http://sra.example/v2", "https://sra.example/v2"}

isNumber(networkId) == networkId.type = "number" /\ networkId.finite

isValidOrderProviderRequest(orderProviderRequest) ==
    /\ orderProviderRequest.makerAssetData \in {"0xA", "0xB", "0xC"}
    /\ orderProviderRequest.takerAssetData \in {"0xA", "0xB", "0xC"}

\* floor(takerFillAmount * makerAssetAmount / takerAssetAmount)
getMakerFillAmount(order, takerFillAmount) ==
    IF takerFillAmount.nan THEN BigNumberNaN
    ELSE BigNumberOfInt((takerFillAmount.n * order.makerAssetAmount)
                          \div (order.takerAssetAmount * Pow10(takerFillAmount.s)))

DEFAULT_PER_PAGE == 1000

(***************************************************************************)
(* The normalizer                                                          *)
(***************************************************************************)
\* variant: the truthiness test applied to the parsed quantity, so that "0"
\* falls back to the full takerAssetAmount
remainingFillableTakerAssetAmount_ZeroFalsy(apiOrder) ==
    LET parsed == BigNumberOfString(apiOrder.metaData.remainingTakerAssetAmount)
    IN  IF apiOrder.metaData.has /\ ~parsed.nan /\ parsed.n # 0
        THEN parsed
        ELSE BigNumberOfInt(apiOrder.order.takerAssetAmount)

\* a non-empty string is truthy, "" and undefined are not
remainingFillableTakerAssetAmount(apiOrder) ==
    IF apiOrder.metaData.has /\ apiOrder.metaData.remainingTakerAssetAmount # <<>>
    THEN BigNumberOfString(apiOrder.metaData.remainingTakerAssetAmount)
    ELSE BigNumberOfInt(apiOrder.order.takerAssetAmount)

newOrder(apiOrder) ==
    [makerAssetAmount |-> apiOrder.order.makerAssetAmount,
     takerAssetAmount |-> apiOrder.order.takerAssetAmount,
     remainingFillableMakerAssetAmount |->
        getMakerFillAmount(apiOrder.order, remainingFillableTakerAssetAmount(apiOrder))]

\* variant: the records mapped last to first
getSignedOrderWithRemainingFillableMakerAssetAmountFromApi_Reversed(apiOrders) ==
    [i \in 1..Len(apiOrders) |-> newOrder(apiOrders[Len(apiOrders) + 1 - i])]

getSignedOrderWithRemainingFillableMakerAssetAmountFromApi(apiOrders) ==
    [i \in 1..Len(apiOrders) |-> newOrder(apiOrders[i])]

(***************************************************************************)
(* State                                                                   *)
(***************************************************************************)
NoClient == [created |-> FALSE, url |-> UndefinedString]

NoProvider ==
    [constructed |-> FALSE, apiUrl |-> UndefinedString,
     networkId |-> UndefinedNumber, sraClient |-> NoClient]

NoCall == [op |-> "none", makerAssetData |-> "", takerAssetData |-> ""]

NoResponse ==
    [kind |-> "none", cause |-> "", asks |-> <<>>, bids |-> <<>>, records |-> <<>>]

NoOutcome ==
    [status |-> "none", errors |-> <<>>, hasValue |-> FALSE,
     orders |-> <<>>, assetDatas |-> <<>>]

Rejected(error) ==
    [status |-> "rejected", errors |-> <<error>>, hasValue |-> FALSE,
     orders |-> <<>>, assetDatas |-> <<>>]

Init ==
    /\ ctorArgs = [apiUrl |-> UndefinedString, networkId |-> UndefinedNumber]
    /\ ctorError = ""
    /\ provider = NoProvider
    /\ pc = "idle"
    /\ call = NoCall
    /\ sent = <<>>
    /\ response = NoResponse
    /\ outcome = NoOutcome

(***************************************************************************)
(* constructor                                                             *)
(***************************************************************************)
\* variant: the networkId assertion left out
constructor_NoNumberCheck(apiUrl, networkId) ==
    /\ pc = "idle"
    /\ ctorArgs' = [apiUrl |-> apiUrl, networkId |-> networkId]
    /\ IF ~isWebUri(apiUrl)
       THEN /\ ctorError' = "InvalidConfiguration"
            /\ provider' = NoProvider
       ELSE /\ ctorError' = ""
            /\ provider' = [constructed |-> TRUE, apiUrl |-> apiUrl,
                            networkId |-> networkId,
                            sraClient |-> [created |-> TRUE, url |-> apiUrl]]
    /\ call' = NoCall
    /\ sent' = <<>>
    /\ response' = NoResponse
    /\ outcome' = NoOutcome
    /\ UNCHANGED pc

constructor(apiUrl, networkId) ==
    /\ pc = "idle"
    /\ ctorArgs' = [apiUrl |-> apiUrl, networkId |-> networkId]
    /\ IF ~isWebUri(apiUrl) \/ ~isNumber(networkId)
       THEN /\ ctorError' = "InvalidConfiguration"
            /\ provider' = NoProvider
       ELSE /\ ctorError' = ""
            /\ provider' = [constructed |-> TRUE, apiUrl |-> apiUrl,
                            networkId |-> networkId,
                            sraClient |-> [created |-> TRUE, url |-> apiUrl]]
    /\ call' = NoCall
    /\ sent' = <<>>
    /\ response' = NoResponse
    /\ outcome' = NoOutcome
    /\ UNCHANGED pc

(***************************************************************************)
(* getOrdersAsync                                                          *)
(***************************************************************************)
\* variant: the order-book request issued before the request is validated
getOrdersAsync_SendFirst(orderProviderRequest) ==
    /\ pc = "idle"
    /\ provider.constructed
    /\ call' = [op |-> "getOrdersAsync",
                makerAssetData |-> orderProviderRequest.makerAssetData,
                takerAssetData |-> orderProviderRequest.takerAssetData]
    /\ response' = NoResponse
    /\ sent' = <<[kind |-> "orderbook",
                  baseAssetData |-> orderProviderRequest.makerAssetData,
                  quoteAssetData |-> orderProviderRequest.takerAssetData,
                  assetDataA |-> "",
                  networkId |-> provider.networkId.val,
                  perPage |-> 0]>>
    /\ IF ~isValidOrderProviderRequest(orderProviderRequest)
       THEN /\ outcome' = Rejected("InvalidRequest")
            /\ pc' = "idle"
       ELSE /\ outcome' = [NoOutcome EXCEPT !.status = "pending"]
            /\ pc' = "awaitOrderbook"
    /\ UNCHANGED <<ctorArgs, ctorError, provider>>

getOrdersAsync(orderProviderRequest) ==
    /\ pc = "idle"
    /\ provider.constructed
    /\ call' = [op |-> "getOrdersAsync",
                makerAssetData |-> orderProviderRequest.makerAssetData,
                takerAssetData |-> orderProviderRequest.takerAssetData]
    /\ response' = NoResponse
    /\ IF ~isValidOrderProviderRequest(orderProviderRequest)
       THEN /\ sent' = <<>>
            /\ outcome' = Rejected("InvalidRequest")
            /\ pc' = "idle"
       ELSE /\ sent' = <<[kind |-> "orderbook",
                          baseAssetData |-> orderProviderRequest.makerAssetData,
                          quoteAssetData |-> orderProviderRequest.takerAssetData,
                          assetDataA |-> "",
                          networkId |-> provider.networkId.val,
                          perPage |-> 0]>>
            /\ outcome' = [NoOutcome EXCEPT !.status = "pending"]
            /\ pc' = "awaitOrderbook"
    /\ UNCHANGED <<ctorArgs, ctorError, provider>>

getOrdersAsyncResolved(orderbook) ==
    /\ pc = "awaitOrderbook"
    /\ response' = [NoResponse EXCEPT !.kind = "resolved",
                                      !.asks = orderbook.asks,
                                      !.bids = orderbook.bids]
    /\ outcome' = [status |-> "fulfilled", errors |-> <<>>, hasValue |-> TRUE,
                   orders |-> getSignedOrderWithRemainingFillableMakerAssetAmountFromApi(
                                  orderbook.asks),
                   assetDatas |-> <<>>]
    /\ pc' = "idle"
    /\ UNCHANGED <<ctorArgs, ctorError, provider, call, sent>>

\* variant: the caught error rethrown as it is
getOrdersAsyncRejected_Rethrow(err) ==
    /\ pc = "awaitOrderbook"
    /\ response' = [NoResponse EXCEPT !.kind = "rejected", !.cause = err]
    /\ outcome' = Rejected(err)
    /\ pc' = "idle"
    /\ UNCHANGED <<ctorArgs, ctorError, provider, call, sent>>

getOrdersAsyncRejected(err) ==
    /\ pc = "awaitOrderbook"
    /\ response' = [NoResponse EXCEPT !.kind = "rejected", !.cause = err]
    /\ outcome' = Rejected("StandardRelayerApiError")
    /\ pc' = "idle"
    /\ UNCHANGED <<ctorArgs, ctorError, provider, call, sent>>

(***************************************************************************)
(* getAvailableMakerAssetDatasAsync                                        *)
(***************************************************************************)
\* variant: the comparison made against side B
makerItem_MatchB(item, takerAssetData) ==
    IF item.assetDataB = takerAssetData THEN item.assetDataA ELSE item.assetDataB

makerItem(item, takerAssetData) ==
    IF item.assetDataA = takerAssetData THEN item.assetDataB ELSE item.assetDataA

getAvailableMakerAssetDatasAsync(takerAssetData) ==
    /\ pc = "idle"
    /\ provider.constructed
    /\ call' = [op |-> "getAvailableMakerAssetDatasAsync",
                makerAssetData |-> "", takerAssetData |-> takerAssetData]
    /\ response' = NoResponse
    /\ sent' = <<[kind |-> "assetPairs", baseAssetData |-> "", quoteAssetData |-> "",
                  assetDataA |-> takerAssetData,
                  networkId |-> provider.networkId.val,
                  perPage |-> 1000]>>
    /\ outcome' = [NoOutcome EXCEPT !.status = "pending"]
    /\ pc' = "awaitMakerAssetPairs"
    /\ UNCHANGED <<ctorArgs, ctorError, provider>>

getAvailableMakerAssetDatasAsyncResolved(records) ==
    /\ pc = "awaitMakerAssetPairs"
    /\ response' = [NoResponse EXCEPT !.kind = "resolved", !.records = records]
    /\ outcome' = [status |-> "fulfilled", errors |-> <<>>, hasValue |-> TRUE,
                   orders |-> <<>>,
                   assetDatas |-> [i \in 1..Len(records) |->
                                      makerItem(records[i], call.takerAssetData)]]
    /\ pc' = "idle"
    /\ UNCHANGED <<ctorArgs, ctorError, provider, call, sent>>

\* variant: a failed lookup retried once before giving up
getAvailableMakerAssetDatasAsyncRejected_Retry(err) ==
    /\ pc = "awaitMakerAssetPairs"
    /\ response' = [NoResponse EXCEPT !.kind = "rejected", !.cause = err]
    /\ sent' = Append(sent, sent[1])
    /\ outcome' = Rejected("StandardRelayerApiError")
    /\ pc' = "idle"
    /\ UNCHANGED <<ctorArgs, ctorError, provider, call>>

getAvailableMakerAssetDatasAsyncRejected(err) ==
    /\ pc = "awaitMakerAssetPairs"
    /\ response' = [NoResponse EXCEPT !.kind = "rejected", !.cause = err]
    /\ outcome' = Rejected("StandardRelayerApiError")
    /\ pc' = "idle"
    /\ UNCHANGED <<ctorArgs, ctorError, provider, call, sent>>

(***************************************************************************)
(* getAvailableTakerAssetDatasAsync                                        *)
(***************************************************************************)
\* variant: side B returned without looking at the query
takerItem_AlwaysB(item, makerAssetData) == item.assetDataB

takerItem(item, makerAssetData) ==
    IF item.assetDataA = makerAssetData THEN item.assetDataB ELSE item.assetDataA

getAvailableTakerAssetDatasAsync(makerAssetData) ==
    /\ pc = "idle"
    /\ provider.constructed
    /\ call' = [op |-> "getAvailableTakerAssetDatasAsync",
                makerAssetData |-> makerAssetData, takerAssetData |-> ""]
    /\ response' = NoResponse
    /\ sent' = <<[kind |-> "assetPairs", baseAssetData |-> "", quoteAssetData |-> "",
                  assetDataA |-> makerAssetData,
                  networkId |-> provider.networkId.val,
                  perPage |-> DEFAULT_PER_PAGE]>>
    /\ outcome' = [NoOutcome EXCEPT !.status = "pending"]
    /\ pc' = "awaitTakerAssetPairs"
    /\ UNCHANGED <<ctorArgs, ctorError, provider>>

getAvailableTakerAssetDatasAsyncResolved(records) ==
    /\ pc = "awaitTakerAssetPairs"
    /\ response' = [NoResponse EXCEPT !.kind = "resolved", !.records = records]
    /\ outcome' = [status |-> "fulfilled", errors |-> <<>>, hasValue |-> TRUE,
                   orders |-> <<>>,
                   assetDatas |-> [i \in 1..Len(records) |->
                                      takerItem(records[i], call.makerAssetData)]]
    /\ pc' = "idle"
    /\ UNCHANGED <<ctorArgs, ctorError, provider, call, sent>>

getAvailableTakerAssetDatasAsyncRejected(err) ==
    /\ pc = "awaitTakerAssetPairs"
    /\ response' = [NoResponse EXCEPT !.kind = "rejected", !.cause = err]
    /\ outcome' = Rejected("StandardRelayerApiError")
    /\ pc' = "idle"
    /\ UNCHANGED <<ctorArgs, ctorError, provider, call, sent>>

Next ==
    \/ \E apiUrl \in ApiUrls, networkId \in NetworkIds : constructor(apiUrl, networkId)
    \/ \E m \in RequestMakerAssetDatas, t \in RequestTakerAssetDatas :
          getOrdersAsync([makerAssetData |-> m, takerAssetData |-> t])
    \/ \E asks \in SeqsUpTo(APIOrders, MaxRecords), bids \in BidsLists :
          getOrdersAsyncResolved([asks |-> asks, bids |-> bids])
    \/ \E err \in TransportCauses : getOrdersAsyncRejected(err)
    \/ \E takerAssetData \in AssetDatas : getAvailableMakerAssetDatasAsync(takerAssetData)
    \/ \E records \in SeqsUpTo(AssetPairsItems, MaxPairs) :
          getAvailableMakerAssetDatasAsyncResolved(records)
    \/ \E err \in TransportCauses : getAvailableMakerAssetDatasAsyncRejected(err)
    \/ \E makerAssetData \in AssetDatas : getAvailableTakerAssetDatasAsync(makerAssetData)
    \/ \E records \in SeqsUpTo(AssetPairsItems, MaxPairs) :
          getAvailableTakerAssetDatasAsyncResolved(records)
    \/ \E err \in TransportCauses : getAvailableTakerAssetDatasAsyncRejected(err)

Spec == Init /\ [][Next]_vars

(***************************************************************************)
(* Properties                                                              *)
(***************************************************************************)
AssetPairsOps == {"getAvailableMakerAssetDatasAsync", "getAvailableTakerAssetDatasAsync"}

\* the identifier an asset-pairs call was queried with
QueryOf(c) ==
    IF c.op = "getAvailableMakerAssetDatasAsync" THEN c.takerAssetData
    ELSE c.makerAssetData

\* C1: whatever the cause of the remote lookup's failure, in each of the
\* three operations the call ends rejected with exactly one
\* StandardRelayerApiError and without a result, the same for every cause.
C1_UniformFailureMapping ==
    response.kind = "rejected" =>
        /\ response.cause \in TransportCauses
        /\ call.op \in AssetPairsOps \cup {"getOrdersAsync"}
        /\ pc = "idle"
        /\ outcome.status = "rejected"
        /\ outcome.errors = <<"StandardRelayerApiError">>
        /\ ~outcome.hasValue
        /\ outcome.orders = <<>>
        /\ outcome.assetDatas = <<>>

C1_Witness ==
    /\ call.op = "getAvailableTakerAssetDatasAsync"
    /\ response.kind = "rejected"
    /\ response.cause = "malformedJSON"
    /\ outcome.errors = <<"StandardRelayerApiError">>

DecimalStrings ==
    { <<"0">>, <<"5", "0">>, <<"1", "5", "0">>, <<"-", "1">>, <<"2", ".", "5">> }

\* ten times the quantity a decimal string of the model denotes
TenthsOf(str) ==
    CASE str = <<"0">> -> 0
      [] str = <<"5", "0">> -> 500
      [] str = <<"1", "5", "0">> -> 1500
      [] str = <<"-", "1">> -> 0 - 10
      [] str = <<"2", ".", "5">> -> 25

\* C2: the i-th returned order's remainingFillableMakerAssetAmount is
\* floor(remainingTaker * makerAssetAmount / takerAssetAmount), where
\* remainingTaker is the metaData value when that is a non-empty decimal
\* string ("0" included) and takerAssetAmount when the key is absent.
C2_MetadataPrecedence ==
    (call.op = "getOrdersAsync" /\ outcome.status = "fulfilled") =>
        \A i \in 1..Len(response.asks) :
            LET apiOrder == response.asks[i]
                m == apiOrder.order.makerAssetAmount
                t == apiOrder.order.takerAssetAmount
                str == apiOrder.metaData.remainingTakerAssetAmount
                got == outcome.orders[i].remainingFillableMakerAssetAmount
            IN  /\ (apiOrder.metaData.has /\ str \in DecimalStrings) =>
                      (~got.nan /\ got.s = 0 /\ got.n = (TenthsOf(str) * m) \div (t * 10))
                /\ ~apiOrder.metaData.has =>
                      (~got.nan /\ got.s = 0 /\ got.n = (t * m) \div t)

C2_Witness ==
    /\ call.op = "getOrdersAsync"
    /\ outcome.status = "fulfilled"
    /\ Len(response.asks) = 2
    /\ response.asks[1] =
          [order |-> [makerAssetAmount |-> 200, takerAssetAmount |-> 100],
           metaData |-> [has |-> TRUE, remainingTakerAssetAmount |-> <<"5", "0">>]]
    /\ outcome.orders[1].remainingFillableMakerAssetAmount.n = 100
    /\ response.asks[2] =
          [order |-> [makerAssetAmount |-> 50, takerAssetAmount |-> 7],
           metaData |-> [has |-> FALSE, remainingTakerAssetAmount |-> <<>>]]
    /\ outcome.orders[2].remainingFillableMakerAssetAmount.n = 50

\* C3: every order returned by getOrdersAsync has a
\* remainingFillableMakerAssetAmount that is a number and is not negative,
\* whatever the metaData contains or omits.
C3_NormalizationTotality ==
    (call.op = "getOrdersAsync" /\ outcome.status = "fulfilled") =>
        \A i \in 1..Len(outcome.orders) :
            /\ ~outcome.orders[i].remainingFillableMakerAssetAmount.nan
            /\ outcome.orders[i].remainingFillableMakerAssetAmount.n >= 0

\* C4: the remainingFillableMakerAssetAmount of a returned order never
\* exceeds the order's makerAssetAmount, whichever remaining taker quantity
\* the metaData supplies.
C4_NoOvershoot ==
    (call.op = "getOrdersAsync" /\ outcome.status = "fulfilled") =>
        \A i \in 1..Len(outcome.orders) :
            ~outcome.orders[i].remainingFillableMakerAssetAmount.nan =>
                outcome.orders[i].remainingFillableMakerAssetAmount.n
                    <= outcome.orders[i].makerAssetAmount

\* C5: a fulfilled getOrdersAsync returns as many orders as the response's
\* asks list has records, the i-th order carrying the fields of the i-th
\* asks record's order; an empty asks list gives an empty result.
C5_OrderPreservation ==
    (call.op = "getOrdersAsync" /\ outcome.status = "fulfilled") =>
        /\ Len(outcome.orders) = Len(response.asks)
        /\ \A i \in 1..Len(response.asks) :
              /\ outcome.orders[i].makerAssetAmount
                    = response.asks[i].order.makerAssetAmount
              /\ outcome.orders[i].takerAssetAmount
                    = response.asks[i].order.takerAssetAmount
        /\ (response.asks = <<>> => outcome.orders = <<>>)

C5_Witness ==
    /\ call.op = "getOrdersAsync"
    /\ outcome.status = "fulfilled"
    /\ Len(outcome.orders) = 2
    /\ response.bids # <<>>
    /\ response.asks[1].order # response.asks[2].order
    /\ outcome.orders[1].takerAssetAmount = 7
    /\ outcome.orders[2].takerAssetAmount = 100

\* C6: for every record of an asset-pairs response with sides X and Y, a
\* call queried with X has Y at the record's position and a call queried
\* with Y has X there; one identifier per record, in response order,
\* duplicates kept.
C6_PairSymmetry ==
    (call.op \in AssetPairsOps /\ outcome.status = "fulfilled") =>
        /\ Len(outcome.assetDatas) = Len(response.records)
        /\ \A i \in 1..Len(response.records) :
              /\ response.records[i].assetDataA = QueryOf(call) =>
                    outcome.assetDatas[i] = response.records[i].assetDataB
              /\ response.records[i].assetDataB = QueryOf(call) =>
                    outcome.assetDatas[i] = response.records[i].assetDataA

C6_Witness ==
    /\ call.op = "getAvailableTakerAssetDatasAsync"
    /\ outcome.status = "fulfilled"
    /\ QueryOf(call) = "0xB"
    /\ response.records =
          << [assetDataA |-> "0xA", assetDataB |-> "0xB"],
             [assetDataA |-> "0xB", assetDataB |-> "0xA"] >>
    /\ outcome.assetDatas = <<"0xA", "0xA">>

\* C7: a call of getAvailableMakerAssetDatasAsync issues exactly one
\* asset-pairs request, with perPage = 1000 and the given identifier as
\* assetDataA, and no call of any operation issues more than one request,
\* a failed one included.
C7_PageSizeSingleAttempt ==
    /\ Len(sent) <= 1
    /\ call.op = "getAvailableMakerAssetDatasAsync" =>
          /\ Len(sent) = 1
          /\ sent[1].kind = "assetPairs"
          /\ sent[1].perPage = 1000
          /\ sent[1].assetDataA = call.takerAssetData
    /\ (call.op # "none" /\ outcome.status \in {"pending", "fulfilled"}) => Len(sent) = 1
    /\ response.kind = "rejected" => Len(sent) = 1

C7_Witness ==
    /\ call.op = "getAvailableMakerAssetDatasAsync"
    /\ response.kind = "rejected"
    /\ pc = "idle"
    /\ Len(sent) = 1
    /\ sent[1].perPage = 1000

\* C8: a getOrdersAsync call with a malformed request is rejected with
\* InvalidRequest without any request having been sent, and an order-book
\* request is only ever sent for a request that passed validation.
C8_InvalidRequestShortCircuit ==
    call.op = "getOrdersAsync" =>
        /\ ~isValidOrderProviderRequest(call) =>
              /\ sent = <<>>
              /\ pc = "idle"
              /\ outcome = Rejected("InvalidRequest")
        /\ sent # <<>> => isValidOrderProviderRequest(call)

C8_Witness ==
    /\ call.op = "getOrdersAsync"
    /\ call.makerAssetData = "0xA"
    /\ call.takerAssetData = "zz"
    /\ outcome.errors = <<"InvalidRequest">>
    /\ sent = <<>>

\* C9: a construction whose apiUrl is not a web URI or whose networkId is
\* not a number fails with InvalidConfiguration, with no client created and
\* nothing stored; a client exists only when both inputs passed the checks.
C9_ConstructionValidation ==
    /\ (ctorArgs.apiUrl # UndefinedString
          /\ (~isWebUri(ctorArgs.apiUrl) \/ ~isNumber(ctorArgs.networkId))) =>
          /\ ctorError = "InvalidConfiguration"
          /\ ~provider.sraClient.created
          /\ provider.apiUrl = UndefinedString
          /\ provider.networkId = UndefinedNumber
          /\ ~provider.constructed
    /\ provider.sraClient.created =>
          /\ isWebUri(ctorArgs.apiUrl)
          /\ isNumber(ctorArgs.networkId)
          /\ provider.sraClient.url = ctorArgs.apiUrl
          /\ ctorError = ""

C9_Witness ==
    /\ ctorArgs.apiUrl = "https://sra.example/v2"
    /\ ctorArgs.networkId.type = "string"
    /\ ctorError = "InvalidConfiguration"
    /\ ~provider.sraClient.created

\* C10: in both directions, a record neither side of which equals the
\* query does not make the call fail and gives side A's identifier; a
\* record whose side A equals the query gives side B's identifier, also
\* when side B equals the query too.
C10_NeitherSideFallback ==
    (call.op \in AssetPairsOps /\ response.kind = "resolved") =>
        /\ outcome.status = "fulfilled"
        /\ Len(outcome.assetDatas) = Len(response.records)
        /\ \A i \in 1..Len(response.records) :
              /\ (response.records[i].assetDataA # QueryOf(call)
                    /\ response.records[i].assetDataB # QueryOf(call)) =>
                    outcome.assetDatas[i] = response.records[i].assetDataA
              /\ response.records[i].assetDataA = QueryOf(call) =>
                    outcome.assetDatas[i] = response.records[i].assetDataB

C10_Witness ==
    /\ call.op = "getAvailableMakerAssetDatasAsync"
    /\ outcome.status = "fulfilled"
    /\ QueryOf(call) = "0xC"
    /\ response.records =
          << [assetDataA |-> "0xA", assetDataB |-> "0xB"],
             [assetDataA |-> "0xC", assetDataB |-> "0xC"] >>
    /\ outcome.assetDatas = <<"0xA", "0xC">>

====
